---- MODULE Spec2Model ----
(***************************************************************************)
(* Model of src/submission/model.py: LitGenericClassifier and its two      *)
(* variants LitSimpleClassifier and LitDigitsClassifier.                   *)
(*                                                                         *)
(* Numbers.  A float is modelled on a fixed-point grid: the integer n      *)
(* stands for n / Scale, and the value NaN stands for IEEE not-a-number.   *)
(* Feature values given by callers are whole multiples of Scale, weights   *)
(* and biases are whole numbers, so affine layers and ReLU are exact.      *)
(* Standardisation rounds its quotient to the grid (towards zero).         *)
(* Class labels and class indices are 0-based, as in torch.                *)
(***************************************************************************)
EXTENDS Integers, Sequences, FiniteSets, TLC

----------------------------------------------------------------------------
(* Bounds of the model *)

MaxBatch == 2      \* largest batch size B that is generated
MaxLabel == 1      \* labels of generated batches are drawn from 0..MaxLabel (capped at C-1)
MaxParam == 1      \* parameter states are numbered 0..MaxParam
MaxLog   == 2      \* capacity of the metrics sink between two collections
Scale    == 4      \* fixed-point resolution: n stands for n / Scale

NaN == 0 - 1000000000   \* IEEE NaN (never the result of a finite computation here)

Variants == {"simple", "digits"}
ParamStates == 0..MaxParam

----------------------------------------------------------------------------
(* The networks: nn.Sequential(Linear, ReLU, ..., Linear) *)

SimpleLayers == <<2, 32, 64, 4>>
DigitsLayers == <<64, 512, 128, 64, 10>>

Layers(v) == IF v = "simple" THEN SimpleLayers ELSE DigitsLayers
InDim(v) == Layers(v)[1]
NumClasses(v) == Layers(v)[Len(Layers(v))]
NumLinear(v) == Len(Layers(v)) - 1

\* The parameters of a parameter state are arbitrary numbers (random
\* initialisation, then whatever the optimizer wrote).  The model fixes one sparse
\* small-integer tensor per parameter state: row j of the weight matrix of the l-th
\* nn.Linear has the entries +1 or -1 at four taps and 0 elsewhere.
TapSet == 0..3
TapIndex(v, p, l, j, t) == ((j + 7 * t + p + l) % Layers(v)[l]) + 1
TapSign(p, j, t) == IF (t + j + p) % 3 # 0 THEN 1 ELSE -1

RECURSIVE WeightFrom(_, _, _, _, _, _)
WeightFrom(v, p, l, j, i, t) ==
    IF t \notin TapSet THEN 0
    ELSE (IF TapIndex(v, p, l, j, t) = i THEN TapSign(p, j, t) ELSE 0)
         + WeightFrom(v, p, l, j, i, t + 1)

\* entry [j][i] of the weight matrix of the l-th nn.Linear of variant v
Weight(v, p, l, j, i) == WeightFrom(v, p, l, j, i, 0)

\* entry [j] of its bias
Bias(v, p, l, j) == ((3 * j + l + 2 * p) % 5) - 2

RECURSIVE DotFrom(_, _, _, _, _, _)
DotFrom(v, p, l, j, x, t) ==
    IF t \notin TapSet THEN 0
    ELSE TapSign(p, j, t) * x[TapIndex(v, p, l, j, t)] + DotFrom(v, p, l, j, x, t + 1)

\* sum over i of Weight[j][i] * x[i], the zero entries of the row skipped
Dot(v, p, l, j, x) == DotFrom(v, p, l, j, x, 0)

HasNaN(x) == \E i \in DOMAIN x : x[i] = NaN

\* nn.Linear: y = x W^T + b.  A NaN anywhere in x makes every output NaN
\* (NaN * w is NaN for every w, 0 included).
Linear(v, p, l, x) ==
    LET nan == HasNaN(x)
    IN  [j \in 1..Layers(v)[l + 1] |->
            IF nan THEN NaN
            ELSE Dot(v, p, l, j, x) + Scale * Bias(v, p, l, j)]

\* nn.ReLU, elementwise; ReLU(NaN) = NaN
ReLU(x) == [j \in DOMAIN x |-> IF x[j] = NaN THEN NaN ELSE IF x[j] > 0 THEN x[j] ELSE 0]

RECURSIVE ForwardFrom(_, _, _, _)
\* layers l..NumLinear applied to one row: ReLU follows every Linear but the last
ForwardFrom(v, p, l, x) ==
    IF l = NumLinear(v) THEN Linear(v, p, l, x)
    ELSE ForwardFrom(v, p, l + 1, ReLU(Linear(v, p, l, x)))

\* self.model(x) for one row x of InDim(v) features: the C logits
ForwardRow(v, p, x) == ForwardFrom(v, p, 1, x)

----------------------------------------------------------------------------
(* Inputs handed in by the caller *)

\* The feature rows that are generated: kind 0 has all entries equal (1.0),
\* kind 1 alternates 1.0, 0.0, 1.0, ...
RowKinds == {0, 1}
SampleRow(d, k) == [i \in 1..d |-> IF k = 0 THEN Scale ELSE Scale * (i % 2)]

\* A batch (x, y): x a tensor of shape (B, dim) kept as its B rows, y of shape (B,)
EmptyBatch(d) == [dim |-> d, x |-> <<>>, y |-> <<>>]
BatchSize(b) == Len(b.x)

\* feature dimensions that are generated: the variant's own d, and a wrong one
Dims(v) == {InDim(v), InDim(v) + 1}
\* labels that are generated, all of them valid class indices
Labels(v) == 0..(IF MaxLabel < NumClasses(v) THEN MaxLabel ELSE NumClasses(v) - 1)

----------------------------------------------------------------------------
(* self.model(x), torch.argmax, accuracy and nn.CrossEntropyLoss *)

\* The logits of the generated rows, tabulated once per variant and parameter state
SampleRows(d) == {SampleRow(d, k) : k \in RowKinds}

LogitsOfSample ==
    [v \in Variants |-> [p \in ParamStates |-> [row \in SampleRows(InDim(v)) |->
        ForwardRow(v, p, row)]]]

RowLogits(v, p, row) ==
    IF row \in DOMAIN LogitsOfSample[v][p]
    THEN LogitsOfSample[v][p][row]
    ELSE ForwardRow(v, p, row)

\* mutant: no check of the feature dimension (surplus columns are ignored)
ShapeUnchecked(v, x_dim) == TRUE

\* The first nn.Linear rejects a tensor whose last dimension is not its in_features
\* (also when the tensor has no rows)
ShapeOk(v, x_dim) == x_dim = InDim(v)

\* y_pred = self.model(x): one row of logits per row of x (ShapeOk presumed)
Forward(v, p, rows) == [i \in 1..Len(rows) |-> RowLogits(v, p, rows[i])]

\* mutant: the position counted from 1
ArgMaxOneBased(z) ==
    CHOOSE j \in DOMAIN z :
        /\ \A k \in DOMAIN z : z[k] <= z[j]
        /\ \A k \in 1..(j - 1) : z[k] < z[j]

\* torch.argmax over one row of logits: the index (0-based) of the first maximal
\* value, NaN counting as maximal
ArgMax(z) ==
    IF HasNaN(z)
    THEN (CHOOSE j \in DOMAIN z : z[j] = NaN /\ \A k \in 1..(j - 1) : z[k] # NaN) - 1
    ELSE (CHOOSE j \in DOMAIN z :
              /\ \A k \in DOMAIN z : z[k] <= z[j]
              /\ \A k \in 1..(j - 1) : z[k] < z[j]) - 1

\* y_pred_labels = torch.argmax(y_pred, dim=1)
PredLabels(logits) == [i \in 1..Len(logits) |-> ArgMax(logits[i])]

RECURSIVE CountEqual(_, _, _)
CountEqual(a, b, n) ==
    IF n = 0 THEN 0
    ELSE (IF a[n] = b[n] THEN 1 ELSE 0) + CountEqual(a, b, n - 1)

\* mutant: (y_pred_labels != y).sum()
CountsMismatches(labels, y) == Len(y) - CountEqual(labels, y, Len(y))

\* correct_predictions = (y_pred_labels == y).sum().item()
CorrectPredictions(labels, y) == CountEqual(labels, y, Len(y))

\* mutant: an empty batch is given accuracy 0 instead of raising
AccuracyGuarded(correct, total) ==
    IF total = 0 THEN [err |-> FALSE, num |-> 0, den |-> 1]
    ELSE [err |-> FALSE, num |-> correct, den |-> total]

\* acc = correct_predictions / total_predictions, kept as the exact fraction;
\* Python raises ZeroDivisionError when total_predictions is 0
Accuracy(correct, total) ==
    IF total = 0 THEN [err |-> TRUE, num |-> correct, den |-> 0]
    ELSE [err |-> FALSE, num |-> correct, den |-> total]

\* loss = self.loss_func(y_pred, y): the mean over the batch of
\*   -log softmax(z_i)[y_i] = log sum_j exp(z_i[j] - z_i[y_i]).
\* exp and log are not computed: the loss is kept as the number of rows and, row by
\* row, the differences z_i[j] - z_i[y_i] it is a function of.  Equal records are
\* equal losses.  A NaN logit makes the loss NaN.
CrossEntropy(logits, y) ==
    IF \E i \in 1..Len(logits) : HasNaN(logits[i])
    THEN [nan |-> TRUE, n |-> Len(y), terms |-> <<>>]
    ELSE [nan |-> FALSE, n |-> Len(y),
          terms |-> [i \in 1..Len(y) |->
                        [j \in DOMAIN logits[i] |-> logits[i][j] - logits[i][y[i] + 1]]]]

----------------------------------------------------------------------------
(* transform_input *)

Abs(n) == IF n < 0 THEN 0 - n ELSE n

RECURSIVE GCD(_, _)
GCD(a, b) == IF b = 0 THEN a ELSE GCD(b, a % b)

RECURSIVE ISqrtFrom(_, _, _)
\* the largest r in lo..hi with r * r <= n
ISqrtFrom(n, lo, hi) ==
    IF lo = hi THEN lo
    ELSE LET mid == (lo + hi + 1) \div 2
         IN  IF mid * mid <= n THEN ISqrtFrom(n, mid, hi) ELSE ISqrtFrom(n, lo, mid - 1)

ISqrt(n) == ISqrtFrom(n, 0, IF n < 40000 THEN n ELSE 40000)

RECURSIVE SumRange(_, _, _)
\* s[lo] + ... + s[hi], by halving
SumRange(s, lo, hi) ==
    IF lo > hi THEN 0
    ELSE IF lo = hi THEN s[lo]
    ELSE LET mid == (lo + hi) \div 2
         IN  SumRange(s, lo, mid) + SumRange(s, mid + 1, hi)

SumSeq(s, n) == SumRange(s, 1, n)

RECURSIVE GCDRange(_, _, _)
GCDRange(s, lo, hi) ==
    IF lo > hi THEN 0
    ELSE IF lo = hi THEN Abs(s[lo])
    ELSE LET mid == (lo + hi) \div 2
         IN  GCD(GCDRange(s, lo, mid), GCDRange(s, mid + 1, hi))

GCDSeq(s, n) == GCDRange(s, 1, n)

\* the entries of a (B, dim) tensor, row after row
Flatten(rows, d) ==
    [e \in 1..(Len(rows) * d) |-> rows[((e - 1) \div d) + 1][((e - 1) % d) + 1]]

\* mutant: a zero standard deviation is replaced by 1
ZScoreGuarded(n, dv, ss) ==
    IF n <= 1 THEN NaN
    ELSE IF ss = 0 THEN 0
    ELSE LET m == ISqrt((Scale * Scale * dv * dv * (n - 1)) \div ss)
         IN  IF dv < 0 THEN 0 - m ELSE m

\* (x - mean) / std for one entry, on the grid.  n is the number of entries, dv
\* the entry's deviation from the mean and ss the sum of the squared deviations,
\* all deviations in one common unit.  x.std() is the unbiased estimate
\* sqrt(ss / (n - 1)): NaN for a single entry, 0 when all entries are equal, and
\* then the quotient is 0 / 0 = NaN.  There is no guard.
ZScore(n, dv, ss) ==
    IF n <= 1 \/ ss = 0 THEN NaN
    ELSE LET m == ISqrt((Scale * Scale * dv * dv * (n - 1)) \div ss)
         IN  IF dv < 0 THEN 0 - m ELSE m

\* Let(v, F) is F(v), with v evaluated once
Let(v, F(_)) == CHOOSE r \in {F(e) : e \in {v}} : TRUE

\* x = (x - x.mean()) / x.std() with mean and std taken over the whole tensor.
\* With n entries of sum s, n * (x - mean) = n * x - s; the deviations are taken
\* in the unit g, their greatest common divisor, which leaves the quotient as it
\* is and keeps the intermediate products small.
Deviation(n, s, g, x) == IF g = 0 THEN 0 ELSE (n * x - s) \div g

Standardize(rows, d) ==
    LET flat == Flatten(rows, d)
        n    == Len(rows) * d
    IN  IF HasNaN(flat) THEN [i \in 1..Len(rows) |-> [j \in 1..d |-> NaN]]
        ELSE
        Let(SumSeq(flat, n), LAMBDA s :
        Let(GCDSeq([e \in 1..n |-> n * flat[e] - s], n), LAMBDA g :
        Let(SumSeq([e \in 1..n |-> Deviation(n, s, g, flat[e]) * Deviation(n, s, g, flat[e])], n),
            LAMBDA ss :
                [i \in 1..Len(rows) |-> [j \in 1..d |->
                    ZScore(n, Deviation(n, s, g, rows[i][j]), ss)]])))

\* mutant: the commented-out body of LitSimpleClassifier.transform_input in force
SimpleTransformStandardizes(b) ==
    [dim |-> b.dim, x |-> Standardize(b.x, b.dim), y |-> b.y]

\* LitSimpleClassifier.transform_input: `return batch`
SimpleTransformInput(b) == b

\* LitDigitsClassifier.transform_input: a new x, a new y (torch.tensor copies,
\* the label values unchanged)
DigitsTransformInput(b) == [dim |-> b.dim, x |-> Standardize(b.x, b.dim), y |-> b.y]

\* What the call leaves the caller's batch as.  The simple variant touches
\* nothing; the digits variant rebinds its local names x and y to new tensors and
\* writes to neither argument.
SimpleTransformLeaves(b) == b
DigitsTransformLeaves(b) == b

\* self.transform_input(batch): both variants override the base class method
TransformInput(v, b) ==
    IF v = "simple" THEN SimpleTransformInput(b) ELSE DigitsTransformInput(b)

TransformLeaves(v, b) ==
    IF v = "simple" THEN SimpleTransformLeaves(b) ELSE DigitsTransformLeaves(b)

----------------------------------------------------------------------------
(* The state *)

VARIABLES
    variant,    \* which subclass the model instance is
    lr,         \* self.lr
    params,     \* the parameter state of self.model
    batch,      \* the batch the caller holds
    log,        \* what self.log has been given since the logger last collected
    last        \* the most recent call on this batch and how it ended: the method,
                \* ok or the exception, what it completed, its loss and accuracy,
                \* the value returned

vars == <<variant, lr, params, batch, log, last>>

\* __init__(self, lr=0); 1 stands for any positive learning rate
LearningRates == {0, 1}

NoLoss == [nan |-> FALSE, n |-> 0, terms |-> <<>>]
NoAcc == [err |-> FALSE, num |-> 0, den |-> 0]
NoRet == [none |-> TRUE]
NoCall ==
    [op |-> "none", outcome |-> "none", stages |-> <<>>,
     loss |-> NoLoss, acc |-> NoAcc, ret |-> NoRet, again |-> FALSE]

IsStepOp(op) == op \in {"training_step", "validation_step", "test_step"}

Init ==
    /\ variant \in Variants
    /\ lr \in LearningRates
    /\ params \in ParamStates
    /\ batch = EmptyBatch(InDim(variant))
    /\ log = <<>>
    /\ last = NoCall

----------------------------------------------------------------------------
(* training_step, validation_step, test_step: the three bodies are the same up *)
(* to the metric names and the value returned                                  *)

\* mutant: the second assignment is missing, the step goes on with what
\* transform_input returned
StepBatchTransformed(v, b) == TransformInput(v, b)

\* x, y = self.transform_input(batch=batch)
\* x,y = batch
\* The second assignment overwrites the first: the step goes on with the caller's
\* batch, as the call left it.
StepBatch(v, b) == TransformLeaves(v, b)

Raised(what, stages, arg) ==
    [outcome |-> what, stages |-> stages, loss |-> NoLoss, acc |-> NoAcc, arg |-> arg]

\* The body of a step from self.model(x) down to the loss, on the batch in; arg is
\* the caller's batch.  An exception ends the body where it is raised:
\* RuntimeError (shape mismatch) in self.model(x), ZeroDivisionError in the
\* division.  stages lists what was completed.
StepBody(v, p, in, arg) ==
    IF ~ShapeOk(v, in.dim)
    THEN Raised("ShapeMismatch", <<"transform_input">>, arg)
    ELSE Let(Forward(v, p, in.x), LAMBDA y_pred :
         Let(PredLabels(y_pred), LAMBDA y_pred_labels :
         Let(Accuracy(CorrectPredictions(y_pred_labels, in.y), Len(in.y)), LAMBDA acc :
             IF acc.err
             THEN Raised("ZeroDivisionError",
                         <<"transform_input", "forward", "argmax", "count">>, arg)
             ELSE [outcome |-> "ok",
                   stages  |-> <<"transform_input", "forward", "argmax", "count",
                                 "accuracy", "loss">>,
                   loss    |-> CrossEntropy(y_pred, in.y),
                   acc     |-> acc,
                   arg     |-> arg])))

\* a step up to its loss: the transform_input call, then the body
RunStep(v, p, b) ==
    Let(StepBatch(v, b), LAMBDA in : StepBody(v, p, in, TransformLeaves(v, b)))

\* the two self.log calls of a step, in program order
TrainingLog(loss, acc) == << <<"train_loss", loss>>, <<"train_acc", acc>> >>
ValidationLog(loss, acc) == << <<"valid_loss", loss>>, <<"valid_acc", acc>> >>

\* mutant: test_step copied from validation_step with its metric names left as they were
TestLogValidNames(loss, acc) == ValidationLog(loss, acc)

TestLog(loss, acc) == << <<"test_loss", loss>>, <<"test_acc", acc>> >>

StepLog(op, loss, acc) ==
    IF op = "training_step" THEN TrainingLog(loss, acc)
    ELSE IF op = "validation_step" THEN ValidationLog(loss, acc)
    ELSE TestLog(loss, acc)

\* the return statements
TrainingReturn(loss, acc) == [loss |-> loss]
ValidationReturn(loss, acc) == [valid_loss |-> loss, valid_acc |-> acc]

\* mutant: test_step returns validation_step's dictionary
TestReturnValidNames(loss, acc) == ValidationReturn(loss, acc)

TestReturn(loss, acc) == [test_loss |-> loss, test_acc |-> acc]

StepReturn(op, loss, acc) ==
    IF op = "training_step" THEN TrainingReturn(loss, acc)
    ELSE IF op = "validation_step" THEN ValidationReturn(loss, acc)
    ELSE TestReturn(loss, acc)

\* mutant: the step applies an update to the parameters itself
ParamsAfterStepUpdated(p) == (p + 1) % (MaxParam + 1)

\* what a step leaves self.model's parameters as: no step writes them
ParamsAfterStep(p) == p

\* a step as a whole: its body, then the two self.log calls and the return
Step(op) ==
    /\ \E r \in {RunStep(variant, params, batch)} :
           /\ batch' = r.arg
           /\ log' = IF r.outcome = "ok" THEN log \o StepLog(op, r.loss, r.acc) ELSE log
           /\ last' = [op |-> op, outcome |-> r.outcome,
                       stages |-> IF r.outcome = "ok"
                                  THEN r.stages \o <<"log_loss", "log_acc", "return">>
                                  ELSE r.stages,
                       loss |-> r.loss, acc |-> r.acc,
                       ret |-> IF r.outcome = "ok"
                               THEN StepReturn(op, r.loss, r.acc) ELSE NoRet,
                       \* history: a step had already completed on this batch
                       again |-> IsStepOp(last.op) /\ last.outcome = "ok"]
    /\ params' = ParamsAfterStep(params)
    /\ UNCHANGED <<variant, lr>>

TrainingStep ==
    /\ Len(log) + 2 <= MaxLog
    /\ Step("training_step")

ValidationStep ==
    /\ Len(log) + 2 <= MaxLog
    /\ Step("validation_step")

TestStep ==
    /\ Len(log) + 2 <= MaxLog
    /\ Step("test_step")

----------------------------------------------------------------------------
(* predict, transform_input, configure_optimizers *)

\* predict(x), called with the features of the caller's batch
Predict ==
    /\ last' = IF ~ShapeOk(variant, batch.dim)
               THEN [NoCall EXCEPT !.op = "predict", !.outcome = "ShapeMismatch"]
               ELSE [NoCall EXCEPT !.op = "predict", !.outcome = "ok",
                                   !.stages = <<"forward", "argmax", "return">>,
                                   !.ret = [labels |->
                                       PredLabels(Forward(variant, params, batch.x))]]
    /\ UNCHANGED <<variant, lr, params, batch, log>>

\* transform_input(batch), called directly
CallTransformInput ==
    /\ batch' = TransformLeaves(variant, batch)
    /\ last' = [NoCall EXCEPT !.op = "transform_input", !.outcome = "ok",
                              !.stages = <<"return">>,
                              !.ret = TransformInput(variant, batch)]
    /\ UNCHANGED <<variant, lr, params, log>>

\* configure_optimizers(): torch.optim.Adam over the model's parameters
ConfigureOptimizers ==
    /\ last' = [NoCall EXCEPT !.op = "configure_optimizers", !.outcome = "ok",
                              !.stages = <<"return">>,
                              !.ret = [optimizer |-> "Adam", lr |-> lr,
                                       weight_decay |-> "1e-5",
                                       params |-> "self.model.parameters()"]]
    /\ UNCHANGED <<variant, lr, params, batch, log>>

----------------------------------------------------------------------------
(* The surrounding framework *)

\* loss.backward() and optim.step() after a training step that returned a loss:
\* the optimizer writes the parameters (with lr = 0 Adam's update is zero)
OptimizerStep ==
    /\ last.op = "training_step" /\ last.outcome = "ok"
    /\ lr # 0
    /\ \E p \in ParamStates \ {params} : params' = p
    /\ last' = NoCall
    /\ UNCHANGED <<variant, lr, batch, log>>

\* the logger collects what was logged
CollectLog ==
    /\ log # <<>>
    /\ log' = <<>>
    /\ UNCHANGED <<variant, lr, params, batch, last>>

\* the data loader starts the next batch: an empty tensor of d columns
NewBatch ==
    \E d \in Dims(variant) :
        /\ batch' = EmptyBatch(d)
        /\ log' = <<>>
        /\ last' = NoCall
        /\ UNCHANGED <<variant, lr, params>>

\* and collates one more example into it
AppendExample ==
    /\ BatchSize(batch) < MaxBatch
    /\ \E k \in RowKinds, c \in Labels(variant) :
           batch' = [batch EXCEPT !.x = Append(@, SampleRow(batch.dim, k)),
                                  !.y = Append(@, c)]
    /\ log' = <<>>
    /\ last' = NoCall
    /\ UNCHANGED <<variant, lr, params>>

Next ==
    \/ TrainingStep
    \/ ValidationStep
    \/ TestStep
    \/ Predict
    \/ CallTransformInput
    \/ ConfigureOptimizers
    \/ OptimizerStep
    \/ CollectLog
    \/ NewBatch
    \/ AppendExample

Spec == Init /\ [][Next]_vars

----------------------------------------------------------------------------
(* Properties *)

\* the transition is a call of one of the three steps, of any method
StepAction == IsStepOp(last'.op) /\ (TrainingStep \/ ValidationStep \/ TestStep)
MethodCall == StepAction \/ Predict \/ CallTransformInput \/ ConfigureOptimizers

Completed(l) == IsStepOp(l.op) /\ l.outcome = "ok"

AllEntriesEqual(b) ==
    \A i \in 1..BatchSize(b) : \A j \in 1..b.dim : b.x[i][j] = b.x[1][1]

\* C1: in both variants every step ends, with the same loss and the same
\* accuracy, as the step without its transform_input call does on the caller's
\* batch, and leaves the caller's batch as it was.
C1_TransformDiscarded ==
    [][StepAction =>
         /\ batch' = batch
         /\ \E r \in {StepBody(variant, params, batch, batch)} :
                /\ last'.outcome = r.outcome
                /\ last'.loss = r.loss
                /\ last'.acc = r.acc]_vars

\* a digits step has completed on a batch that standardisation would change
C1_Witness ==
    /\ variant = "digits"
    /\ Completed(last)
    /\ BatchSize(batch) >= 1
    /\ ~AllEntriesEqual(batch)
    /\ DigitsTransformInput(batch).x # batch.x

\* C2: predict on B > 0 rows of the variant's input dimension returns B labels,
\* the i-th a class whose logit for x[i] is maximal, each in 0..C-1.
C2_PredictLabels ==
    (last.op = "predict" /\ ShapeOk(variant, batch.dim) /\ BatchSize(batch) > 0) =>
        /\ last.outcome = "ok"
        /\ Len(last.ret.labels) = BatchSize(batch)
        /\ \A i \in 1..BatchSize(batch) :
               /\ last.ret.labels[i] \in 0..(NumClasses(variant) - 1)
               /\ \E z \in {RowLogits(variant, params, batch.x[i])} :
                      \A j \in DOMAIN z : z[j] <= z[last.ret.labels[i] + 1]

\* predict has returned two different labels for a batch of two rows
C2_Witness ==
    /\ last.op = "predict" /\ last.outcome = "ok"
    /\ BatchSize(batch) = 2
    /\ last.ret.labels[1] # last.ret.labels[2]

\* C3: the accuracy of a completed step is (number of rows whose arg-max class
\* is the label) / B: between 0 and 1, and 1 when the predicted labels are the
\* labels given.
C3_Accuracy ==
    Completed(last) =>
        \E pred \in {PredLabels(Forward(variant, params, batch.x))} :
            /\ last.acc.den = BatchSize(batch)
            /\ last.acc.num =
                   Cardinality({i \in 1..BatchSize(batch) : pred[i] = batch.y[i]})
            /\ 0 <= last.acc.num /\ last.acc.num <= last.acc.den
            /\ (pred = batch.y => last.acc.num = last.acc.den)

\* a step on two rows, one of them predicted right
C3_Witness ==
    /\ Completed(last)
    /\ last.acc.den = 2 /\ last.acc.num = 1

\* C4: a step on an empty batch of the right feature dimension raises
\* ZeroDivisionError after the forward pass, the arg-max and the count and before
\* the loss: nothing is logged and nothing is returned.
C4_EmptyBatch ==
    [][(BatchSize(batch) = 0 /\ ShapeOk(variant, batch.dim) /\ StepAction) =>
         /\ last'.outcome = "ZeroDivisionError"
         /\ last'.stages = <<"transform_input", "forward", "argmax", "count">>
         /\ last'.ret = NoRet
         /\ log' = log]_vars

C4_Witness ==
    /\ IsStepOp(last.op)
    /\ BatchSize(batch) = 0
    /\ last.outcome = "ZeroDivisionError"

\* C5: a step that completes appends the loss and then the accuracy under its own
\* phase's names to the log and changes nothing else; predict and transform_input
\* log nothing.
C5_Logging ==
    [][/\ (last'.outcome = "ok" /\ last'.op = "training_step" /\ TrainingStep) =>
              /\ log' = log \o << <<"train_loss", last'.loss>>, <<"train_acc", last'.acc>> >>
              /\ UNCHANGED <<variant, lr, params, batch>>
       /\ (last'.outcome = "ok" /\ last'.op = "validation_step" /\ ValidationStep) =>
              /\ log' = log \o << <<"valid_loss", last'.loss>>, <<"valid_acc", last'.acc>> >>
              /\ UNCHANGED <<variant, lr, params, batch>>
       /\ (last'.outcome = "ok" /\ last'.op = "test_step" /\ TestStep) =>
              /\ log' = log \o << <<"test_loss", last'.loss>>, <<"test_acc", last'.acc>> >>
              /\ UNCHANGED <<variant, lr, params, batch>>
       /\ (log' # log /\ last'.op = "predict") => ~Predict
       /\ (log' # log /\ last'.op = "transform_input") => ~CallTransformInput]_vars

\* a test step has logged
C5_Witness ==
    /\ last.op = "test_step" /\ last.outcome = "ok"
    /\ Len(log) = 2
    /\ log[1][1] = "test_loss" /\ log[2][1] = "test_acc"

\* C6: no method of the model writes the parameters, so a step that follows a
\* completed step on the same batch, with no optimizer step in between, completes
\* with the same loss and the same accuracy.
C6_ParametersFrame ==
    [][/\ params' # params => ~MethodCall
       /\ (Completed(last) /\ StepAction) =>
              /\ last'.outcome = "ok"
              /\ last'.loss = last.loss
              /\ last'.acc = last.acc]_vars

\* a step has completed a second time on a batch
C6_Witness ==
    /\ Completed(last) /\ last.again
    /\ BatchSize(batch) >= 1

\* C7: validation_step returns exactly valid_loss and valid_acc, test_step exactly
\* test_loss and test_acc, with the values just logged; training_step returns the
\* loss alone; and steps of different phases on the same batch and parameters end
\* with equal loss and equal accuracy.
C7_Returns ==
    [][/\ (last'.outcome = "ok" /\ last'.op = "validation_step" /\ ValidationStep) =>
              /\ DOMAIN last'.ret = {"valid_loss", "valid_acc"}
              /\ log' = log \o << <<"valid_loss", last'.ret.valid_loss>>,
                                  <<"valid_acc", last'.ret.valid_acc>> >>
       /\ (last'.outcome = "ok" /\ last'.op = "test_step" /\ TestStep) =>
              /\ DOMAIN last'.ret = {"test_loss", "test_acc"}
              /\ log' = log \o << <<"test_loss", last'.ret.test_loss>>,
                                  <<"test_acc", last'.ret.test_acc>> >>
       /\ (last'.outcome = "ok" /\ last'.op = "training_step" /\ TrainingStep) =>
              /\ DOMAIN last'.ret = {"loss"}
              /\ log'[Len(log) + 1] = <<"train_loss", last'.ret.loss>>
       /\ (Completed(last) /\ last'.op # last.op /\ StepAction) =>
              /\ Completed(last')
              /\ last'.loss = last.loss
              /\ last'.acc = last.acc]_vars

\* a validation step has returned after a step of another phase on the same batch
C7_Witness ==
    /\ last.op = "validation_step" /\ last.outcome = "ok" /\ last.again
    /\ DOMAIN last.ret = {"valid_loss", "valid_acc"}
    /\ BatchSize(batch) = 2

\* C8: the digits transform_input, given a tensor whose entries are all equal (so
\* that its standard deviation is zero), raises nothing and returns features that
\* are all NaN.
C8_ZeroVariance ==
    (/\ last.op = "transform_input"
     /\ variant = "digits"
     /\ BatchSize(batch) >= 1
     /\ AllEntriesEqual(batch)) =>
        /\ last.outcome = "ok"
        /\ Len(last.ret.x) = BatchSize(batch)
        /\ \A i \in 1..BatchSize(batch) : \A j \in 1..batch.dim : last.ret.x[i][j] = NaN

C8_Witness ==
    /\ last.op = "transform_input"
    /\ variant = "digits"
    /\ BatchSize(batch) = 2
    /\ AllEntriesEqual(batch)
    /\ last.ret.x[2][1] = NaN

\* C9: the simple transform_input returns the batch it was given, features and
\* labels as they were, and leaves the caller's batch unchanged.
C9_SimpleIdentity ==
    [][(variant = "simple" /\ last'.op = "transform_input" /\ CallTransformInput) =>
         /\ last'.ret = batch
         /\ batch' = batch]_vars

\* the simple transform_input has returned a batch that standardisation would change
C9_Witness ==
    /\ variant = "simple"
    /\ last.op = "transform_input"
    /\ BatchSize(batch) >= 1
    /\ ~AllEntriesEqual(batch)
    /\ last.ret = batch

\* C10: with a feature dimension that is not the model's, a step raises in the
\* forward pass, before accuracy, loss and logging, and predict raises too: nothing
\* is logged and nothing is returned.
C10_ShapeMismatch ==
    [][/\ (batch.dim # InDim(variant) /\ StepAction) =>
              /\ last'.outcome = "ShapeMismatch"
              /\ last'.stages = <<"transform_input">>
              /\ last'.ret = NoRet
              /\ log' = log
       /\ (batch.dim # InDim(variant) /\ Predict) =>
              /\ last'.outcome = "ShapeMismatch"
              /\ last'.stages = <<>>
              /\ last'.ret = NoRet
              /\ log' = log]_vars

C10_Witness ==
    /\ IsStepOp(last.op)
    /\ last.outcome = "ShapeMismatch"
    /\ batch.dim # InDim(variant)
    /\ BatchSize(batch) >= 1

====
